---- MODULE Spec2Model ----
(***************************************************************************)
(* A model of miniDockReader (src/src/miniDockReader.cpp): the cached      *)
(* style resolver mergeStyleCached, the run coalescer mergeAdjacentRuns,   *)
(* the paragraph reader readParagraph and the two entry points             *)
(* readDocument / readDocumentFromMemory.                                  *)
(*                                                                         *)
(* Numbers of type float are kept as exact fractions with denominator      *)
(* FloatUnit: the float x is the integer x * FloatUnit.  Every division    *)
(* the code performs (by 2, 20 and 240) is exact on integer attributes.    *)
(***************************************************************************)
EXTENDS Integers, Sequences, FiniteSets, TLC

VARIABLES
    styles,     \* the StyleMap handed to mergeStyleCached (Document::styles)
    cache,      \* g_mergedStyleCache
    req,        \* styleId of the last top-level mergeStyleCached call
    res,        \* Style returned by that call
    status,     \* "idle", "returned", or "overflow" (the recursion never returned)
    returned,   \* per styleId: the Style its first top-level call returned
    repeat,     \* whether the last call asked for a styleId asked for before
    source,     \* the std::vector<Run> first handed to mergeAdjacentRuns
    runs,       \* that vector, as mergeAdjacentRuns has left it
    prev,       \* the vector before the last application
    passes,     \* how often mergeAdjacentRuns was applied to it
    pElem,      \* the <w:p> element handed to readParagraph
    para,       \* the Paragraph readParagraph returned
    pstatus,    \* "idle", "ok", "threw" or "overflow": how readParagraph ended
    archive,    \* the archive handed to the last top-level read
    api,        \* "path" (readDocument) or "memory" (readDocumentFromMemory)
    doc,        \* the Document that read returned
    dstatus,    \* "idle", "returned", "threw" or "overflow": how it ended
    threads     \* per thread: the top-level read it runs and how far it is

resolverVars == <<styles, cache, req, res, status, returned, repeat>>
coalescerVars == <<source, runs, prev, passes>>
paraVars == <<pElem, para, pstatus>>
readVars == <<archive, api, doc, dstatus>>
concVars == <<threads>>
vars == <<resolverVars, coalescerVars, paraVars, readVars, concVars>>

\* ------------------------------------------------------------------ bounds
StackLimit == 5     \* call frames available to the recursion of mergeStyleCached

MaxRuns == 3        \* longest vector of Runs handed to mergeAdjacentRuns
MaxPasses == 2      \* applications of mergeAdjacentRuns to one vector
MaxParaRuns == 3    \* most <w:r> children of a <w:p>

\* ------------------------------------------------------- program constants
FloatUnit == 240    \* denominator of the fixed-point image of float

\* --------------------------------------------------------------- data model
\* struct Color: the default Color() and two parsed ones
EmptyColor == [r |-> 0, g |-> 0, b |-> 0, a |-> 255]
Red        == [r |-> 255, g |-> 0, b |-> 0, a |-> 255]
Yellow     == [r |-> 255, g |-> 255, b |-> 0, a |-> 255]

\* Color::empty()
ColorEmpty(c) == c.r = 0 /\ c.g = 0 /\ c.b = 0 /\ c.a = 255

\* struct Tab
Tab1 == [position |-> 36 * FloatUnit, alignment |-> "l", leader |-> ""]
Tab2 == [position |-> 72 * FloatUnit, alignment |-> "r", leader |-> "dot"]

\* struct Style, default-constructed (styleType has no initialiser)
DefaultStyle ==
    [ styleType |-> "Indeterminate", basedOn |-> "",
      bold |-> FALSE, italic |-> FALSE, underline |-> FALSE,
      strikeThrough |-> FALSE, Subscript |-> FALSE, Superscript |-> FALSE,
      color |-> EmptyColor, backColor |-> EmptyColor,
      fontFamily |-> "", fontSize |-> 0,
      level |-> 0, numbered |-> FALSE, numberFormat |-> "", numberStyle |-> "",
      lineSpacing |-> FloatUnit, spaceBefore |-> 0, spaceAfter |-> 0,
      spaceBetweenSameStyle |-> FALSE,
      justification |-> "Left", rightDirection |-> FALSE,
      indentLeft |-> 0, indentRight |-> 0, indentFirstLine |-> 0,
      tabs |-> << >> ]

\* the boolean fields of Style that mergeStyleCached overlays
BoolFields == { "bold", "italic", "underline", "strikeThrough", "Subscript",
                "Superscript", "numbered", "rightDirection",
                "spaceBetweenSameStyle" }

\* ------------------------------------------------------------ style resolver
\* OverlayStyle with `bold` assigned instead of set-when-true
OverlayStyle_assignBold(result, cur) ==
    [ result EXCEPT
        !.bold = cur.bold,
        !.italic = IF cur.italic THEN TRUE ELSE @,
        !.underline = IF cur.underline THEN TRUE ELSE @,
        !.strikeThrough = IF cur.strikeThrough THEN TRUE ELSE @,
        !.Subscript = IF cur.Subscript THEN TRUE ELSE @,
        !.Superscript = IF cur.Superscript THEN TRUE ELSE @,
        !.numbered = IF cur.numbered THEN TRUE ELSE @,
        !.rightDirection = IF cur.rightDirection THEN TRUE ELSE @,
        !.spaceBetweenSameStyle = IF cur.spaceBetweenSameStyle THEN TRUE ELSE @,
        !.tabs = IF cur.tabs # << >> THEN @ \o cur.tabs ELSE @ ]

\* OverlayStyle with nothing inherited: the style's own fields
OverlayStyle_ownOnly(result, cur) == cur

\* OverlayStyle with the style's tabs put in place of the inherited ones
OverlayStyle_tabsReplaced(result, cur) ==
    [ result EXCEPT !.tabs = IF cur.tabs # << >> THEN cur.tabs ELSE @ ]

\* mergeStyleCached lines 41-104: overlay of the style's own fields on the
\* inherited result
OverlayStyle(result, cur) ==
    [ styleType |-> IF cur.styleType # "Paragraph" /\ cur.styleType # "Run"
                    THEN cur.styleType ELSE result.styleType,
      basedOn |-> result.basedOn,
      bold |-> IF cur.bold THEN TRUE ELSE result.bold,
      italic |-> IF cur.italic THEN TRUE ELSE result.italic,
      underline |-> IF cur.underline THEN TRUE ELSE result.underline,
      strikeThrough |-> IF cur.strikeThrough THEN TRUE ELSE result.strikeThrough,
      Subscript |-> IF cur.Subscript THEN TRUE ELSE result.Subscript,
      Superscript |-> IF cur.Superscript THEN TRUE ELSE result.Superscript,
      color |-> IF ~ColorEmpty(cur.color) THEN cur.color ELSE result.color,
      backColor |-> IF ~ColorEmpty(cur.backColor) THEN cur.backColor
                    ELSE result.backColor,
      fontFamily |-> IF cur.fontFamily # "" THEN cur.fontFamily
                     ELSE result.fontFamily,
      fontSize |-> IF cur.fontSize > 0 THEN cur.fontSize ELSE result.fontSize,
      lineSpacing |-> IF cur.lineSpacing > 0 THEN cur.lineSpacing
                      ELSE result.lineSpacing,
      spaceBefore |-> IF cur.spaceBefore > 0 THEN cur.spaceBefore
                      ELSE result.spaceBefore,
      spaceAfter |-> IF cur.spaceAfter > 0 THEN cur.spaceAfter
                     ELSE result.spaceAfter,
      spaceBetweenSameStyle |-> IF cur.spaceBetweenSameStyle THEN TRUE
                                ELSE result.spaceBetweenSameStyle,
      justification |-> IF cur.justification # "Left" THEN cur.justification
                        ELSE result.justification,
      rightDirection |-> IF cur.rightDirection THEN TRUE
                         ELSE result.rightDirection,
      indentLeft |-> IF cur.indentLeft > 0 THEN cur.indentLeft
                     ELSE result.indentLeft,
      indentRight |-> IF cur.indentRight > 0 THEN cur.indentRight
                      ELSE result.indentRight,
      indentFirstLine |-> IF cur.indentFirstLine > 0 THEN cur.indentFirstLine
                          ELSE result.indentFirstLine,
      tabs |-> IF cur.tabs # << >> THEN result.tabs \o cur.tabs
               ELSE result.tabs,
      numbered |-> IF cur.numbered THEN TRUE ELSE result.numbered,
      numberFormat |-> IF cur.numberFormat # "" THEN cur.numberFormat
                       ELSE result.numberFormat,
      numberStyle |-> IF cur.numberStyle # "" THEN cur.numberStyle
                      ELSE result.numberStyle,
      level |-> IF cur.level > 0 THEN cur.level ELSE result.level ]

\* what one call of mergeStyleCached hands back: the Style, the cache after
\* the call, and whether the call returned at all
Outcome(result, c, ok) == [result |-> result, cache |-> c, ok |-> ok]

\* CacheHit without its return: the cached Style is overlaid once more
CacheHit_fallThrough(sm, c, styleId) ==
    IF styleId \in DOMAIN sm THEN OverlayStyle(c[styleId], sm[styleId])
    ELSE c[styleId]

\* mergeStyleCached lines 26-28: the cache hit
CacheHit(sm, c, styleId) == c[styleId]

\* CacheDefault leaving the cache as it is
CacheDefault_skip(c, styleId) == c

\* mergeStyleCached line 33: g_mergedStyleCache[styleId] = result, for a
\* styleId the style map does not hold
CacheDefault(c, styleId) == (styleId :> DefaultStyle) @@ c

\* CacheInsert storing the default-constructed Style in place of the merged
\* one
CacheInsert_default(c, styleId, result) == (styleId :> DefaultStyle) @@ c

\* mergeStyleCached line 106: g_mergedStyleCache[styleId] = result
CacheInsert(c, styleId, result) == (styleId :> result) @@ c

RECURSIVE mergeStyleCached(_, _, _, _)
\* mergeStyleCached(styles, styleId) on the cache c, with `frames` call frames
\* left on the stack; a call made with no frame left never returns
mergeStyleCached(sm, c, styleId, frames) ==
    IF frames = 0 THEN Outcome(DefaultStyle, c, FALSE)
    ELSE IF styleId = "" THEN Outcome(DefaultStyle, c, TRUE)
    ELSE IF styleId \in DOMAIN c THEN Outcome(CacheHit(sm, c, styleId), c, TRUE)
    ELSE IF styleId \notin DOMAIN sm
         THEN Outcome(DefaultStyle, CacheDefault(c, styleId), TRUE)
    ELSE LET cur  == sm[styleId]
             base == IF cur.basedOn # ""
                     THEN mergeStyleCached(sm, c, cur.basedOn, frames - 1)
                     ELSE Outcome(DefaultStyle, c, TRUE)
         IN  IF ~base.ok THEN Outcome(DefaultStyle, base.cache, FALSE)
             ELSE LET result == OverlayStyle(base.result, cur)
                  IN  Outcome(result, CacheInsert(base.cache, styleId, result),
                              TRUE)

\* ------------------------------------------------- inputs of the resolver
StyleIds   == {"A", "B", "Normal"}
BasedOnIds == {"", "A", "B", "Normal", "X"}
ReqIds     == {"", "A", "B", "Normal", "X"}

\* the <w:style> bodies the style maps are built from, as parseStyles
\* leaves them
PlainStyle  == [DefaultStyle EXCEPT !.styleType = "Paragraph"]
ItalicStyle == [PlainStyle EXCEPT !.italic = TRUE]
BoldStyle   == [PlainStyle EXCEPT !.bold = TRUE]
OddStyle    ==
    [PlainStyle EXCEPT !.bold = TRUE, !.underline = TRUE, !.Subscript = TRUE,
        !.numbered = TRUE, !.spaceBetweenSameStyle = TRUE,
        !.numberFormat = "decimal", !.level = 1,
        !.color = Red, !.fontFamily = "Arial", !.fontSize = 12 * FloatUnit,
        !.lineSpacing = (360 * FloatUnit) \div 240,
        !.spaceBefore = 12 * FloatUnit, !.indentLeft = 36 * FloatUnit,
        !.justification = "Center", !.tabs = <<Tab1>>]
EvenStyle   ==
    [PlainStyle EXCEPT !.styleType = "Run", !.italic = TRUE,
        !.strikeThrough = TRUE, !.Superscript = TRUE, !.rightDirection = TRUE,
        !.numberStyle = "ListNumber", !.level = 2,
        !.backColor = Yellow, !.fontFamily = "Times", !.fontSize = 10 * FloatUnit,
        !.spaceAfter = 6 * FloatUnit, !.indentRight = 18 * FloatUnit,
        !.indentFirstLine = 18 * FloatUnit,
        !.justification = "Right", !.tabs = <<Tab2>>]

StyleBodies == {PlainStyle, ItalicStyle, BoldStyle, OddStyle, EvenStyle}

StyleDefs == { [b EXCEPT !.basedOn = p] : b \in StyleBodies, p \in BasedOnIds }

\* the two definitions of style "Normal" the style maps are built with
NormalDefs == { [OddStyle EXCEPT !.basedOn = "X"],
                [PlainStyle EXCEPT !.basedOn = "A"] }

\* the style maps of the resolver's specification
StyleMaps ==
    { [id \in StyleIds |-> IF id = "Normal" THEN n ELSE ab[id]] :
        ab \in [{"A", "B"} -> StyleDefs], n \in NormalDefs }

EmptyCache == << >>

\* ------------------------------------------------------------ run coalescer
\* struct Run, default-constructed; text is its sequence of characters
DefaultRun ==
    [ text |-> << >>, lang |-> "", style |-> "",
      bold |-> FALSE, italic |-> FALSE, underline |-> FALSE, strike |-> FALSE,
      subscript |-> FALSE, superscript |-> FALSE,
      color |-> EmptyColor, backColor |-> EmptyColor,
      fontFamily |-> "", fontSize |-> 0, noteId |-> 0 ]

\* sameRunStyle with the texts compared in place of the style ids
sameRunStyle_textForStyle(a, b) ==
    /\ a.text = b.text /\ a.lang = b.lang
    /\ a.bold = b.bold /\ a.italic = b.italic
    /\ a.underline = b.underline /\ a.strike = b.strike
    /\ a.color = b.color /\ a.backColor = b.backColor
    /\ a.fontFamily = b.fontFamily /\ a.fontSize = b.fontSize
    /\ a.subscript = b.subscript /\ a.superscript = b.superscript

\* sameRunStyle
sameRunStyle(a, b) ==
    /\ a.style = b.style
    /\ a.lang = b.lang
    /\ a.bold = b.bold
    /\ a.italic = b.italic
    /\ a.underline = b.underline
    /\ a.strike = b.strike
    /\ a.color = b.color
    /\ a.backColor = b.backColor
    /\ a.fontFamily = b.fontFamily
    /\ a.fontSize = b.fontSize
    /\ a.subscript = b.subscript
    /\ a.superscript = b.superscript

\* AbsorbRun keeping the fields of the absorbed Run in place of those of the
\* Run that absorbs it
AbsorbRun_takeLater(last, r) == [r EXCEPT !.text = last.text \o r.text]

\* AbsorbRun with the text assigned instead of appended
AbsorbRun_assign(last, r) == [last EXCEPT !.text = r.text]

\* mergeAdjacentRuns line 507: merged.back().text += runs[i].text
AbsorbRun(last, r) == [last EXCEPT !.text = @ \o r.text]

RECURSIVE MergeLoop(_, _, _)
\* mergeAdjacentRuns lines 503-513: the loop from index i (1-based) on
MergeLoop(merged, rs, i) ==
    IF i > Len(rs) THEN merged
    ELSE IF sameRunStyle(merged[Len(merged)], rs[i])
         THEN MergeLoop([merged EXCEPT ![Len(merged)] = AbsorbRun(@, rs[i])],
                        rs, i + 1)
         ELSE MergeLoop(Append(merged, rs[i]), rs, i + 1)

\* mergeAdjacentRuns returning early on vectors of up to two Runs
mergeAdjacentRuns_shortReturn(rs) ==
    IF Len(rs) < 3 THEN rs ELSE MergeLoop(<<rs[1]>>, rs, 2)

\* mergeAdjacentRuns: the vector it leaves in `runs`
mergeAdjacentRuns(rs) ==
    IF Len(rs) < 2 THEN rs ELSE MergeLoop(<<rs[1]>>, rs, 2)

\* ------------------------------------------------- XML attributes and text
\* An optional attribute or child element is a sequence of length 0 (absent)
\* or 1 (present); attribute values and texts are sequences of characters.
Absent == << >>
Some(v) == <<v>>
Has(a) == a # << >>
Get(a) == a[1]

Digits == {"0", "1", "2", "3", "4", "5", "6", "7", "8", "9"}
DigitValue(ch) ==
    CASE ch = "0" -> 0 [] ch = "1" -> 1 [] ch = "2" -> 2 [] ch = "3" -> 3
      [] ch = "4" -> 4 [] ch = "5" -> 5 [] ch = "6" -> 6 [] ch = "7" -> 7
      [] ch = "8" -> 8 [] ch = "9" -> 9

RECURSIVE SkipSpaces(_)
\* the leading white space std::stof and std::atoi skip
SkipSpaces(cs) ==
    IF cs # << >> /\ Head(cs) = " " THEN SkipSpaces(Tail(cs)) ELSE cs

RECURSIVE ParseDigits(_, _, _)
\* the leading decimal digits of cs: how many there are and their value
ParseDigits(cs, count, acc) ==
    IF cs # << >> /\ Head(cs) \in Digits
    THEN ParseDigits(Tail(cs), count + 1, acc * 10 + DigitValue(Head(cs)))
    ELSE [count |-> count, val |-> acc]

\* the number at the start of cs: optional sign, then digits
ParseNumber(cs) ==
    LET body == SkipSpaces(cs)
        neg  == body # << >> /\ Head(body) = "-"
        pos  == body # << >> /\ Head(body) = "+"
        d    == ParseDigits(IF neg \/ pos THEN Tail(body) ELSE body, 0, 0)
    IN  [ok |-> d.count > 0, val |-> IF neg THEN 0 - d.val ELSE d.val]

\* std::stof throws std::invalid_argument when no conversion can be done
StofThrows(cs) == ~ParseNumber(cs).ok
\* std::stof(cs) / d, as a float (only used where stof returns)
StofDiv(cs, d) == (ParseNumber(cs).val * FloatUnit) \div d
\* std::atoi: 0 when no conversion can be done
Atoi(cs) == IF ParseNumber(cs).ok THEN ParseNumber(cs).val ELSE 0

\* an optional numeric attribute read with std::stof
AttrThrows(a) == Has(a) /\ StofThrows(Get(a))

HexDigits == Digits \cup {"A", "B", "C", "D", "E", "F"}
                    \cup {"a", "b", "c", "d", "e", "f"}
HexValue(ch) ==
    CASE ch \in Digits -> DigitValue(ch)
      [] ch \in {"A", "a"} -> 10 [] ch \in {"B", "b"} -> 11
      [] ch \in {"C", "c"} -> 12 [] ch \in {"D", "d"} -> 13
      [] ch \in {"E", "e"} -> 14 [] ch \in {"F", "f"} -> 15

\* std::stoi(hex.substr(i, 2), nullptr, 16) throws when the first character
\* is no hexadecimal digit
HexPairThrows(hex, i) == hex[i] \notin HexDigits
HexPair(hex, i) ==
    IF hex[i + 1] \in HexDigits
    THEN (16 * HexValue(hex[i]) + HexValue(hex[i + 1])) % 256
    ELSE HexValue(hex[i])

\* Color::Color(const std::string& hex)
ColorThrows(hex) ==
    \/ Len(hex) = 6 /\ \E i \in {1, 3, 5} : HexPairThrows(hex, i)
    \/ Len(hex) = 8 /\ \E i \in {1, 3, 5, 7} : HexPairThrows(hex, i)
ColorOf(hex) ==
    IF Len(hex) = 6
    THEN [r |-> HexPair(hex, 1), g |-> HexPair(hex, 3), b |-> HexPair(hex, 5),
          a |-> 255]
    ELSE IF Len(hex) = 8
    THEN [r |-> HexPair(hex, 1), g |-> HexPair(hex, 3), b |-> HexPair(hex, 5),
          a |-> HexPair(hex, 7)]
    ELSE EmptyColor

RECURSIVE TrimLeft(_)
TrimLeft(cs) == IF cs # << >> /\ Head(cs) = " " THEN TrimLeft(Tail(cs)) ELSE cs

RECURSIVE TrimRight(_)
TrimRight(cs) ==
    IF cs # << >> /\ cs[Len(cs)] = " "
    THEN TrimRight(SubSeq(cs, 1, Len(cs) - 1)) ELSE cs

\* readParagraph lines 689-699: leading and trailing spaces removed
TrimSpaces(cs) == TrimRight(TrimLeft(cs))

\* the shapes of <w:r>, <w:rPr> and <w:pPr> with every child absent
NoRun == [footnoteReference |-> Absent, endnoteReference |-> Absent,
          t |-> Absent, rPr |-> Absent]
NoRPr == [rStyle |-> "", lang |-> Absent, b |-> FALSE, i |-> FALSE,
          u |-> FALSE, strike |-> FALSE, subscript |-> FALSE,
          superscript |-> FALSE, color |-> Absent, shd |-> Absent,
          rFonts |-> Absent, sz |-> Absent]
NoPPr == [pStyle |-> "", outlineLvl |-> Absent, numPr |-> Absent,
          jc |-> "", bidi |-> FALSE,
          indLeft |-> Absent, indRight |-> Absent, indFirstLine |-> Absent,
          line |-> Absent, before |-> Absent, after |-> Absent,
          lineRule |-> "", tabs |-> Absent]

\* ---------------------------------------------------------- paragraph reader
\* struct Paragraph, default-constructed
DefaultParagraph ==
    [ style |-> "", level |-> 0, numbered |-> FALSE,
      numberFormat |-> "", numberStyle |-> "",
      justification |-> "Left", rightDirection |-> FALSE,
      lineSpacing |-> FloatUnit, spaceBefore |-> 0, spaceAfter |-> 0,
      spaceBetweenSameStyle |-> FALSE,
      indentLeft |-> 0, indentRight |-> 0, indentFirstLine |-> 0,
      tabs |-> << >>, runs |-> << >> ]

\* readParagraph lines 541-561: the Paragraph seeded from its resolved style
ParaSeed(paraStyle, pStyleId) ==
    [ DefaultParagraph EXCEPT
        !.numbered = paraStyle.numbered,
        !.numberFormat = paraStyle.numberFormat,
        !.numberStyle = paraStyle.numberStyle,
        !.level = paraStyle.level,
        !.justification = paraStyle.justification,
        !.rightDirection = paraStyle.rightDirection,
        !.style = pStyleId,
        !.lineSpacing = IF paraStyle.lineSpacing > 0
                        THEN paraStyle.lineSpacing ELSE @,
        !.spaceBefore = paraStyle.spaceBefore,
        !.spaceAfter = paraStyle.spaceAfter,
        !.spaceBetweenSameStyle = paraStyle.spaceBetweenSameStyle,
        !.indentLeft = paraStyle.indentLeft,
        !.indentRight = paraStyle.indentRight,
        !.indentFirstLine = paraStyle.indentFirstLine,
        !.tabs = paraStyle.tabs ]

\* readParagraph lines 634-641 (parseStyles 336-343): one <w:tab>
TabOf(tab) ==
    [ position |-> IF Has(tab.pos) THEN StofDiv(Get(tab.pos), 20) ELSE 0,
      alignment |-> IF Has(tab.val)
                    THEN (IF Get(tab.val) = << >> THEN "" ELSE Get(tab.val)[1])
                    ELSE "L",
      leader |-> tab.leader ]

\* the std::stof calls of readParagraph lines 600-643 that throw on pPr
PPrThrows(pPr) ==
    \/ AttrThrows(pPr.indLeft) \/ AttrThrows(pPr.indRight)
    \/ AttrThrows(pPr.indFirstLine)
    \/ AttrThrows(pPr.line) \/ AttrThrows(pPr.before) \/ AttrThrows(pPr.after)
    \/ Has(pPr.tabs) /\ \E i \in 1..Len(Get(pPr.tabs)) :
                            AttrThrows(Get(pPr.tabs)[i].pos)

\* readParagraph lines 563-643: the direct properties of <w:pPr> laid over
\* the seeded Paragraph (where no std::stof throws)
ParaDirect(seeded, pPr) ==
    LET numPr == pPr.numPr
    IN [ seeded EXCEPT
        !.numbered = IF Has(numPr) THEN TRUE ELSE @,
        !.numberFormat = IF Has(numPr) /\ Get(numPr).numId THEN "decimal" ELSE @,
        !.level = IF Has(numPr) /\ Has(Get(numPr).ilvl)
                  THEN Atoi(Get(Get(numPr).ilvl)) ELSE @,
        !.numberStyle = IF Has(numPr) /\ Has(Get(numPr).numStyle)
                        THEN Get(Get(numPr).numStyle) ELSE @,
        !.justification = IF pPr.jc = "center" THEN "Center"
                          ELSE IF pPr.jc = "right" THEN "Right"
                          ELSE IF pPr.jc = "both" THEN "Justify" ELSE @,
        !.rightDirection = IF pPr.bidi THEN TRUE ELSE @,
        !.indentLeft = IF Has(pPr.indLeft) THEN StofDiv(Get(pPr.indLeft), 20)
                       ELSE @,
        !.indentRight = IF Has(pPr.indRight) THEN StofDiv(Get(pPr.indRight), 20)
                        ELSE @,
        !.indentFirstLine = IF Has(pPr.indFirstLine)
                            THEN StofDiv(Get(pPr.indFirstLine), 20) ELSE @,
        !.lineSpacing = IF Has(pPr.line) THEN StofDiv(Get(pPr.line), 240) ELSE @,
        !.spaceBefore = IF Has(pPr.before) THEN StofDiv(Get(pPr.before), 20)
                        ELSE @,
        !.spaceAfter = IF Has(pPr.after) THEN StofDiv(Get(pPr.after), 20) ELSE @,
        !.spaceBetweenSameStyle = IF pPr.lineRule = "exact" THEN TRUE ELSE @,
        !.tabs = IF Has(pPr.tabs)
                 THEN [i \in 1..Len(Get(pPr.tabs)) |-> TabOf(Get(pPr.tabs)[i])]
                 ELSE @ ]

\* readParagraph lines 674-701: the text of <w:t>, trimmed unless
\* xml:space="preserve"
RunText(r) ==
    IF ~Has(r.t) THEN << >>
    ELSE IF Get(r.t).space = "preserve" THEN Get(r.t).text
    ELSE TrimSpaces(Get(r.t).text)

\* the Color constructors and the std::stof of readParagraph lines 759-778
\* that throw on rPr
RPrThrows(rPr) ==
    \/ Has(rPr.color) /\ ColorThrows(Get(rPr.color))
    \/ Has(rPr.shd) /\ ColorThrows(Get(rPr.shd))
    \/ AttrThrows(rPr.sz)

\* RunProps with the inherited bold cleared when <w:b> is not there
RunProps_inlineBold(run, rStyle, rPr) ==
    [ run EXCEPT
        !.bold = rPr.b,
        !.italic = rPr.i \/ rStyle.italic \/ @,
        !.underline = rPr.u \/ rStyle.underline \/ @,
        !.strike = rPr.strike \/ rStyle.strikeThrough \/ @,
        !.subscript = rPr.subscript \/ rStyle.Subscript \/ @,
        !.superscript = rPr.superscript \/ rStyle.Superscript \/ @ ]

\* readParagraph lines 719-778: the resolved run style, then the direct
\* properties of <w:rPr>, laid over the Run
RunProps(run, rStyle, rPr) ==
    [ run EXCEPT
        !.bold = rPr.b \/ rStyle.bold \/ @,
        !.italic = rPr.i \/ rStyle.italic \/ @,
        !.underline = rPr.u \/ rStyle.underline \/ @,
        !.strike = rPr.strike \/ rStyle.strikeThrough \/ @,
        !.subscript = rPr.subscript \/ rStyle.Subscript \/ @,
        !.superscript = rPr.superscript \/ rStyle.Superscript \/ @,
        !.lang = IF Has(rPr.lang) THEN Get(rPr.lang) ELSE @,
        !.color = IF Has(rPr.color) THEN ColorOf(Get(rPr.color))
                  ELSE IF ~ColorEmpty(rStyle.color) THEN rStyle.color ELSE @,
        !.backColor = IF Has(rPr.shd) THEN ColorOf(Get(rPr.shd))
                      ELSE IF ~ColorEmpty(rStyle.backColor)
                      THEN rStyle.backColor ELSE @,
        !.fontFamily = IF Has(rPr.rFonts) THEN Get(rPr.rFonts)
                       ELSE IF rStyle.fontFamily # "" THEN rStyle.fontFamily
                       ELSE @,
        !.fontSize = IF Has(rPr.sz) THEN StofDiv(Get(rPr.sz), 2)
                     ELSE IF rStyle.fontSize > 0 THEN rStyle.fontSize ELSE @ ]

\* what reading one <w:r>, or the runs of a <w:p>, or a whole <w:p> comes to:
\* "ok", "threw" (an exception leaves readParagraph) or "overflow" (a call of
\* mergeStyleCached never returned)
Reading(value, c, st) == [value |-> value, cache |-> c, status |-> st]

\* readParagraph lines 658-669: the Run emitted for a footnote reference.
\* noteId holds the bits of the uint32_t as the int of the same bit pattern.
NoteRefRun(fr) ==
    [DefaultRun EXCEPT !.noteId = Atoi(Get(fr.id)), !.text = fr.text]

\* readParagraph lines 707-718: the style a run takes its properties from
RunStyleId(rPr, pStyleId) == IF rPr.rStyle = "" THEN pStyleId ELSE rPr.rStyle

\* readParagraph lines 719-778: <w:rPr> laid over the Run, m being what
\* mergeStyleCached came to for the run's style
ReadRunProps(run, rPr, m) ==
    IF ~m.ok THEN Reading(run, m.cache, "overflow")
    ELSE IF RPrThrows(rPr) THEN Reading(run, m.cache, "threw")
    ELSE Reading(RunProps(run, m.result, rPr), m.cache, "ok")

\* readParagraph lines 656-780: one <w:r>
ReadRun(r, sm, c, pStyleId) ==
    IF Has(r.footnoteReference) /\ Has(Get(r.footnoteReference).id)
    THEN Reading(NoteRefRun(Get(r.footnoteReference)), c, "ok")
    ELSE IF ~Has(r.rPr)
    THEN Reading([DefaultRun EXCEPT !.text = RunText(r)], c, "ok")
    ELSE ReadRunProps([DefaultRun EXCEPT !.text = RunText(r)], Get(r.rPr),
                      mergeStyleCached(sm, c, RunStyleId(Get(r.rPr), pStyleId),
                                       StackLimit))

RECURSIVE ReadRuns(_, _, _, _, _, _)
\* readParagraph lines 780-781: the Run `one` is pushed and the loop goes on,
\* unless reading it did not come back
PushRun(rs, i, acc, sm, pStyleId, one) ==
    IF one.status # "ok" THEN Reading(acc, one.cache, one.status)
    ELSE ReadRuns(rs, i + 1, Append(acc, one.value), sm, one.cache, pStyleId)

\* readParagraph lines 654-781: the loop over the <w:r> children from the
\* i-th on, `acc` being para.runs so far
ReadRuns(rs, i, acc, sm, c, pStyleId) ==
    IF i > Len(rs) THEN Reading(acc, c, "ok")
    ELSE PushRun(rs, i, acc, sm, pStyleId, ReadRun(rs[i], sm, c, pStyleId))

\* readParagraph lines 541-643: the Paragraph seeded from the resolved style
\* m and overlaid with the direct properties of <w:pPr>
SeedParagraph(pPr, m) ==
    IF ~m.ok THEN Reading(DefaultParagraph, m.cache, "overflow")
    ELSE IF PPrThrows(pPr) THEN Reading(DefaultParagraph, m.cache, "threw")
    ELSE Reading(ParaDirect(ParaSeed(m.result, pPr.pStyle), pPr), m.cache, "ok")

\* readParagraph lines 527-644: the paragraph properties
ReadParaProps(p, sm, c) ==
    IF ~Has(p.pPr) THEN Reading(DefaultParagraph, c, "ok")
    ELSE SeedParagraph(Get(p.pPr),
             mergeStyleCached(sm, c,
                 IF Get(p.pPr).pStyle = "" THEN "Normal" ELSE Get(p.pPr).pStyle,
                 StackLimit))

\* readParagraph lines 646-649: the id of the style the runs inherit from
ParaStyleId(p) ==
    IF Has(p.pPr) /\ Get(p.pPr).pStyle # "" THEN Get(p.pPr).pStyle ELSE "Normal"

\* readParagraph lines 782-783: the runs that were read are coalesced
CloseParagraph(props, rd) ==
    IF rd.status # "ok" THEN Reading(props.value, rd.cache, rd.status)
    ELSE Reading([props.value EXCEPT !.runs = mergeAdjacentRuns(rd.value)],
                 rd.cache, "ok")

\* readParagraph lines 652-781: the runs, m being what the second
\* mergeStyleCached came to
ReadParaRuns(p, sm, props, m) ==
    IF ~m.ok THEN Reading(props.value, m.cache, "overflow")
    ELSE CloseParagraph(props,
             ReadRuns(p.runs, 1, << >>, sm, m.cache, ParaStyleId(p)))

\* readParagraph lines 646-783: what follows the paragraph properties
ReadParaBody(p, sm, props) ==
    IF props.status # "ok" THEN props
    ELSE ReadParaRuns(p, sm, props,
             mergeStyleCached(sm, props.cache, ParaStyleId(p), StackLimit))

\* readParagraph(p, styles) on the cache c
readParagraph(p, sm, c) == ReadParaBody(p, sm, ReadParaProps(p, sm, c))

\* -------------------------------------------------------------- style parser
\* parseStyles lines 235-349: the std::stof calls and Color constructors
\* that throw on one <w:style>
StyleThrows(se) ==
    \/ Has(se.rPr) /\ RPrThrows(Get(se.rPr))
    \/ Has(se.pPr) /\ PPrThrows(Get(se.pPr))

\* parseStyles lines 224-349: the Style of one <w:style> (where nothing throws)
StyleOf(se) ==
    LET rp == IF Has(se.rPr) THEN Get(se.rPr) ELSE NoRPr
        pp == IF Has(se.pPr) THEN Get(se.pPr) ELSE NoPPr
        numPr == pp.numPr
    IN [ styleType |-> IF ~Has(se.type) THEN "Indeterminate"
                       ELSE IF Get(se.type) = "paragraph" THEN "Paragraph"
                       ELSE "Run",
         basedOn |-> se.basedOn,
         bold |-> rp.b, italic |-> rp.i, underline |-> rp.u,
         strikeThrough |-> rp.strike, Subscript |-> rp.subscript,
         Superscript |-> rp.superscript,
         color |-> IF Has(rp.color) THEN ColorOf(Get(rp.color)) ELSE EmptyColor,
         backColor |-> IF Has(rp.shd) THEN ColorOf(Get(rp.shd)) ELSE EmptyColor,
         fontFamily |-> IF Has(rp.rFonts) THEN Get(rp.rFonts) ELSE "",
         fontSize |-> IF Has(rp.sz) THEN StofDiv(Get(rp.sz), 2) ELSE 0,
         level |-> IF Has(numPr) /\ Has(Get(numPr).ilvl)
                   THEN Atoi(Get(Get(numPr).ilvl))
                   ELSE IF Has(pp.outlineLvl) THEN Atoi(Get(pp.outlineLvl))
                   ELSE 0,
         numbered |-> Has(numPr),
         numberFormat |-> IF Has(numPr) /\ Get(numPr).numId THEN "decimal"
                          ELSE "",
         numberStyle |-> IF Has(numPr) /\ Has(Get(numPr).numStyle)
                         THEN Get(Get(numPr).numStyle) ELSE "",
         lineSpacing |-> IF Has(pp.line) THEN StofDiv(Get(pp.line), 240)
                         ELSE FloatUnit,
         spaceBefore |-> IF Has(pp.before) THEN StofDiv(Get(pp.before), 20)
                         ELSE 0,
         spaceAfter |-> IF Has(pp.after) THEN StofDiv(Get(pp.after), 20) ELSE 0,
         spaceBetweenSameStyle |-> pp.lineRule = "exact",
         justification |-> IF pp.jc = "center" THEN "Center"
                           ELSE IF pp.jc = "right" THEN "Right"
                           ELSE IF pp.jc = "both" THEN "Justify" ELSE "Left",
         rightDirection |-> pp.bidi,
         indentLeft |-> IF Has(pp.indLeft) THEN StofDiv(Get(pp.indLeft), 20)
                        ELSE 0,
         indentRight |-> IF Has(pp.indRight) THEN StofDiv(Get(pp.indRight), 20)
                         ELSE 0,
         indentFirstLine |-> IF Has(pp.indFirstLine)
                             THEN StofDiv(Get(pp.indFirstLine), 20) ELSE 0,
         tabs |-> IF Has(pp.tabs)
                  THEN [k \in 1..Len(Get(pp.tabs)) |-> TabOf(Get(pp.tabs)[k])]
                  ELSE << >> ]

\* what a parser comes to: its value, and "ok" or "threw"
Parsed(value, st) == [value |-> value, status |-> st]

RECURSIVE ParseStyleList(_, _, _)
\* parseStyles lines 217-353: the loop over the <w:style> children from the
\* i-th on; map.emplace keeps the first Style of a styleId
ParseStyleList(elems, i, map) ==
    IF i > Len(elems) THEN Parsed(map, "ok")
    ELSE LET se == elems[i]
         IN  IF ~Has(se.styleId) THEN ParseStyleList(elems, i + 1, map)
             ELSE IF StyleThrows(se) THEN Parsed(map, "threw")
             ELSE IF Get(se.styleId) \in DOMAIN map
             THEN ParseStyleList(elems, i + 1, map)
             ELSE ParseStyleList(elems, i + 1,
                                 (Get(se.styleId) :> StyleOf(se)) @@ map)

\* an empty buffer: no root element
EmptyBuffer == [root |-> ""]

\* parseStyles(xml)
parseStyles(xml) ==
    IF xml.root # "w:styles" THEN Parsed(<< >>, "ok")
    ELSE ParseStyleList(xml.styles, 1, << >>)

\* ---------------------------------------------------- notes and main document
RECURSIVE ReadParas(_, _, _, _, _)
\* the Paragraph `one` is pushed and the loop goes on, unless reading it did
\* not come back
PushPara(ps, i, acc, sm, one) ==
    IF one.status # "ok" THEN Reading(acc, one.cache, one.status)
    ELSE ReadParas(ps, i + 1, Append(acc, one.value), sm, one.cache)

\* the loop over the <w:p> children from the i-th on (parseFootnotes lines
\* 401-406, parseEndnotes 455-460, parseMainDocument 811-816)
ReadParas(ps, i, acc, sm, c) ==
    IF i > Len(ps) THEN Reading(acc, c, "ok")
    ELSE PushPara(ps, i, acc, sm, readParagraph(ps[i], sm, c))

\* IsSeparator knowing "separator" only
IsSeparator_separatorOnly(ne) == ne.type = "separator"

\* a separator entry of footnotes.xml / endnotes.xml
IsSeparator(ne) == ne.type \in {"separator", "continuationSeparator"}

RECURSIVE ParseNoteList(_, _, _, _, _)
\* parseFootnotes lines 407-409 (parseEndnotes 461-463): map[id] = Note{id,
\* paragraphs}, ps being what reading the entry's paragraphs came to
StoreNote(notes, i, map, sm, id, ps) ==
    IF ps.status # "ok" THEN Reading(map, ps.cache, ps.status)
    ELSE ParseNoteList(notes, i + 1,
                       (id :> [id |-> id, paragraphs |-> ps.value]) @@ map,
                       sm, ps.cache)

\* parseFootnotes lines 381-410 (parseEndnotes 435-464): the loop over the
\* entries from the i-th on
ParseNoteList(notes, i, map, sm, c) ==
    IF i > Len(notes) THEN Reading(map, c, "ok")
    ELSE IF ~Has(notes[i].id) \/ IsSeparator(notes[i])
    THEN ParseNoteList(notes, i + 1, map, sm, c)
    ELSE StoreNote(notes, i, map, sm, Atoi(Get(notes[i].id)),
                   ReadParas(notes[i].paras, 1, << >>, sm, c))

\* parseFootnotes(xml, styles) on the cache c
parseFootnotes(xml, sm, c) ==
    IF xml.root # "w:footnotes" THEN Reading(<< >>, c, "ok")
    ELSE ParseNoteList(xml.notes, 1, << >>, sm, c)

\* parseEndnotes(xml, styles) on the cache c
parseEndnotes(xml, sm, c) ==
    IF xml.root # "w:endnotes" THEN Reading(<< >>, c, "ok")
    ELSE ParseNoteList(xml.notes, 1, << >>, sm, c)

\* parseMainDocument(xml, styles) on the cache c
parseMainDocument(xml, sm, c) ==
    IF xml.root # "w:document" THEN Reading(<< >>, c, "ok")
    ELSE IF ~Has(xml.body) THEN Reading(<< >>, c, "ok")
    ELSE ReadParas(Get(xml.body), 1, << >>, sm, c)

\* ------------------------------------------------------------ entry points
FileNames == { "word/document.xml", "word/styles.xml", "word/footnotes.xml",
               "word/endnotes.xml" }

\* struct Document, default-constructed
EmptyDocument ==
    [paragraphs |-> << >>, styles |-> << >>, footnotes |-> << >>,
     endnotes |-> << >>]

\* readMultipleFilesFromZIP / readMultipleFilesFromZIPMemory: the entries of
\* the archive among the requested names; none when it cannot be opened
readMultipleFilesFromZIP(a) ==
    IF ~a.opens THEN << >>
    ELSE [n \in (DOMAIN a.files) \cap FileNames |-> a.files[n]]

\* fileData[name]: std::unordered_map::operator[] makes an empty string for a
\* name that is not there
FileData(fileData, name) ==
    IF name \in DOMAIN fileData THEN fileData[name] ELSE EmptyBuffer

\* what a top-level read comes to: the Document, the cache it leaves, and
\* "returned", "threw" or "overflow"
ReadResult(d, c, st) == [doc |-> d, cache |-> c, status |-> st]

\* ParseMain storing, for every style the readers resolved, the merged Style
\* of the cache in place of the parsed one
ParseMain_writeBack(fileData, st, fn, en, md) ==
    IF md.status # "ok" THEN ReadResult(EmptyDocument, md.cache, md.status)
    ELSE ReadResult([paragraphs |-> md.value,
                     styles |-> [id \in DOMAIN st.value |->
                                    IF id \in DOMAIN md.cache
                                    THEN md.cache[id] ELSE st.value[id]],
                     footnotes |-> fn.value, endnotes |-> en.value],
                    md.cache, "returned")

\* readDocument lines 850-853: parseMainDocument, then the Document is
\* returned
ParseMain(fileData, st, fn, en, md) ==
    IF md.status # "ok" THEN ReadResult(EmptyDocument, md.cache, md.status)
    ELSE ReadResult([paragraphs |-> md.value, styles |-> st.value,
                     footnotes |-> fn.value, endnotes |-> en.value],
                    md.cache, "returned")

\* readDocument lines 848-849: parseEndnotes, then the rest
ParseEnd(fileData, st, fn, en) ==
    IF en.status # "ok" THEN ReadResult(EmptyDocument, en.cache, en.status)
    ELSE ParseMain(fileData, st, fn, en,
             parseMainDocument(FileData(fileData, "word/document.xml"),
                               st.value, en.cache))

\* readDocument lines 846-847: parseFootnotes, then the rest
ParseFoot(fileData, st, fn) ==
    IF fn.status # "ok" THEN ReadResult(EmptyDocument, fn.cache, fn.status)
    ELSE ParseEnd(fileData, st, fn,
             parseEndnotes(FileData(fileData, "word/endnotes.xml"),
                           st.value, fn.cache))

\* readDocument lines 844-845: parseStyles, then the rest
ParseStyled(fileData, st, c) ==
    IF st.status # "ok" THEN ReadResult(EmptyDocument, c, "threw")
    ELSE ParseFoot(fileData, st,
             parseFootnotes(FileData(fileData, "word/footnotes.xml"),
                            st.value, c))

\* readDocument lines 844-853 (readDocumentFromMemory 874-883): the four
\* parsers, in order, on the cache c
ParseAll(fileData, c) ==
    ParseStyled(fileData, parseStyles(FileData(fileData, "word/styles.xml")), c)

\* ClearCache leaving the entries of earlier reads in place
ClearCache_keep(c) == c

\* readDocument line 830 (readDocumentFromMemory 863):
\* g_mergedStyleCache.clear()
ClearCache(c) == EmptyCache

\* readDocument returning early as soon as one requested entry is missing
readDocument_anyMissing(a, c) ==
    IF DOMAIN readMultipleFilesFromZIP(a) # FileNames
    THEN ReadResult(EmptyDocument, ClearCache(c), "returned")
    ELSE ParseAll(readMultipleFilesFromZIP(a), ClearCache(c))

\* readDocument(path), the file at path being the archive a, called with
\* g_mergedStyleCache = c
readDocument(a, c) ==
    IF DOMAIN readMultipleFilesFromZIP(a) = {}
    THEN ReadResult(EmptyDocument, ClearCache(c), "returned")
    ELSE ParseAll(readMultipleFilesFromZIP(a), ClearCache(c))

\* readDocumentFromMemory giving up when the archive holds no word/styles.xml
readDocumentFromMemory_needsStyles(a, c) ==
    IF "word/styles.xml" \notin DOMAIN readMultipleFilesFromZIP(a)
    THEN ReadResult(EmptyDocument, ClearCache(c), "returned")
    ELSE ParseAll(readMultipleFilesFromZIP(a), ClearCache(c))

\* readDocumentFromMemory(data, size), the bytes being the archive a, called
\* with g_mergedStyleCache = c
readDocumentFromMemory(a, c) ==
    ParseAll(readMultipleFilesFromZIP(a), ClearCache(c))

\* the Runs the vectors of the coalescer's specification are built from
PlainRun(t) == [DefaultRun EXCEPT !.text = t]
NoteRun(n, t) == [DefaultRun EXCEPT !.noteId = n, !.text = t]
RunMenu ==
    { PlainRun(<<"a">>), PlainRun(<<"a", "a">>), PlainRun(<< >>),
      [PlainRun(<<"b">>) EXCEPT !.bold = TRUE],
      [PlainRun(<<"c">>) EXCEPT !.bold = TRUE, !.italic = TRUE],
      [PlainRun(<<"d">>) EXCEPT !.style = "A"],
      [PlainRun(<<"e">>) EXCEPT !.lang = "en-US"],
      [PlainRun(<<"f">>) EXCEPT !.fontFamily = "Arial",
                                !.fontSize = 12 * FloatUnit, !.color = Red],
      NoteRun(1, << >>), NoteRun(2, <<"*">>) }

RECURSIVE SeqsUpTo(_, _)
\* the sequences over S of length at most n
SeqsUpTo(S, n) ==
    IF n = 0 THEN { << >> }
    ELSE LET shorter == SeqsUpTo(S, n - 1)
         IN  shorter \cup { Append(q, x) : q \in shorter, x \in S }

RECURSIVE ConcatText(_)
\* the texts of the Runs of rs, concatenated in order
ConcatText(rs) ==
    IF rs = << >> THEN << >> ELSE Head(rs).text \o ConcatText(Tail(rs))

\* ------------------------------------------------------------- specification
ResolverIdle ==
    /\ styles = << >> /\ cache = << >> /\ req = "" /\ res = DefaultStyle
    /\ status = "idle" /\ returned = << >> /\ repeat = FALSE

CoalescerIdle ==
    /\ source = << >> /\ runs = << >> /\ prev = << >> /\ passes = 0

ParaIdle ==
    /\ pElem = << >> /\ para = DefaultParagraph /\ pstatus = "idle"

ClosedArchive == [opens |-> FALSE, files |-> << >>]

ReadIdle ==
    /\ archive = ClosedArchive /\ api = "" /\ doc = EmptyDocument
    /\ dstatus = "idle"

ConcIdle == threads = << >>

Init ==
    /\ CoalescerIdle
    /\ ParaIdle
    /\ ReadIdle
    /\ ConcIdle
    /\ styles \in StyleMaps
    /\ cache = EmptyCache
    /\ req = ""
    /\ res = DefaultStyle
    /\ status = "idle"
    /\ returned = << >>
    /\ repeat = FALSE

\* one call of mergeStyleCached(styles, id) made by a reader
Resolve(id) ==
    /\ status # "overflow"
    /\ LET out == mergeStyleCached(styles, cache, id, StackLimit)
       IN  /\ req' = id
           /\ res' = out.result
           /\ cache' = out.cache
           /\ repeat' = (id \in DOMAIN returned)
           /\ status' = IF out.ok THEN "returned" ELSE "overflow"
           /\ returned' =
                IF ~out.ok THEN returned
                ELSE IF id \in DOMAIN returned THEN returned
                ELSE (id :> out.result) @@ returned
    /\ UNCHANGED <<styles, coalescerVars, paraVars, readVars, concVars>>

Next == \E id \in ReqIds : Resolve(id)

Spec == Init /\ [][Next]_vars

\* the coalescer alone: mergeAdjacentRuns applied, and applied again, to a
\* vector of Runs
InitCoalesce ==
    /\ ResolverIdle
    /\ ParaIdle
    /\ ReadIdle
    /\ ConcIdle
    /\ source \in SeqsUpTo(RunMenu, MaxRuns)
    /\ runs = source
    /\ prev = source
    /\ passes = 0

Coalesce ==
    /\ passes < MaxPasses
    /\ runs' = mergeAdjacentRuns(runs)
    /\ prev' = runs
    /\ passes' = passes + 1
    /\ UNCHANGED <<source, resolverVars, paraVars, readVars, concVars>>

NextCoalesce == Coalesce

SpecCoalesce == InitCoalesce /\ [][NextCoalesce]_vars

\* ------------------------------------------- inputs of the paragraph reader
TextElem(cs, space) == Some([text |-> cs, space |-> space])
NoteRef(id, cs) == Some([id |-> id, text |-> cs])

\* the <w:r> elements the paragraphs are built from
RunElems ==
    { [NoRun EXCEPT !.t = TextElem(<<"a">>, "")],
      [NoRun EXCEPT !.t = TextElem(<<" ", "b">>, "preserve"),
                    !.rPr = Some([NoRPr EXCEPT !.b = TRUE])],
      [NoRun EXCEPT !.t = TextElem(<<" ", "c", " ">>, ""),
                    !.rPr = Some([NoRPr EXCEPT !.rStyle = "A",
                        !.u = TRUE, !.subscript = TRUE,
                        !.lang = Some("en-US"),
                        !.color = Some(<<"F", "F", "0", "0", "0", "0">>),
                        !.sz = Some(<<"2", "4">>)])],
      [NoRun EXCEPT !.rPr = Some(NoRPr)],
      [NoRun EXCEPT !.t = TextElem(<<"d">>, ""),
                    !.rPr = Some([NoRPr EXCEPT !.sz = Some(<<"a", "b", "c">>)])],
      [NoRun EXCEPT !.footnoteReference = NoteRef(Some(<<"1">>), << >>)],
      [NoRun EXCEPT !.footnoteReference = NoteRef(Some(<<"0">>), << >>),
                    !.rPr = Some([NoRPr EXCEPT !.rStyle = "B"])],
      [NoRun EXCEPT !.footnoteReference = NoteRef(Some(<<"-", "1">>), << >>)],
      [NoRun EXCEPT !.endnoteReference = NoteRef(Some(<<"2">>), <<"*">>)],
      [NoRun EXCEPT !.footnoteReference = NoteRef(Absent, << >>),
                    !.t = TextElem(<<"e">>, "")] }

\* the <w:pPr> children the paragraphs are built from
PPrElems ==
    { Absent,
      Some([NoPPr EXCEPT !.pStyle = "A"]),
      Some([NoPPr EXCEPT !.jc = "center", !.bidi = TRUE,
               !.numPr = Some([numId |-> TRUE, ilvl |-> Some(<<"1">>),
                               numStyle |-> Absent]),
               !.tabs = Some(<<[pos |-> Some(<<"7", "2", "0">>),
                               val |-> Some(<<"l", "e", "f", "t">>),
                               leader |-> "dot"]>>)]),
      Some([NoPPr EXCEPT !.pStyle = "B", !.jc = "left",
               !.indLeft = Some(<<"7", "2", "0">>),
               !.line = Some(<<"3", "6", "0">>),
               !.before = Some(<<"2", "4", "0">>), !.lineRule = "exact"]),
      Some([NoPPr EXCEPT !.before = Some(<<"a", "b", "c">>)]) }

ParaElems ==
    { [pPr |-> pp, runs |-> rs] :
        pp \in PPrElems, rs \in SeqsUpTo(RunElems, MaxParaRuns) }

\* the style maps the paragraphs are read with: a chain, an unformatted map
\* and the two-style cycle
ParaStyleMaps ==
    { [id \in StyleIds |->
         IF id = "A" THEN [BoldStyle EXCEPT !.basedOn = "B"]
         ELSE IF id = "B" THEN EvenStyle
         ELSE [OddStyle EXCEPT !.basedOn = "X"]],
      [id \in StyleIds |->
         IF id = "A" THEN [ItalicStyle EXCEPT !.basedOn = "Normal"]
         ELSE PlainStyle],
      [id \in StyleIds |->
         IF id = "A" THEN [ItalicStyle EXCEPT !.basedOn = "B"]
         ELSE IF id = "B" THEN [BoldStyle EXCEPT !.basedOn = "A"]
         ELSE PlainStyle] }

\* the paragraph reader: one <w:p> read with a style map, on the cache the
\* paragraphs read before it have left
InitPara ==
    /\ CoalescerIdle
    /\ ReadIdle
    /\ ConcIdle
    /\ styles \in ParaStyleMaps
    /\ cache = EmptyCache
    /\ req = "" /\ res = DefaultStyle /\ status = "idle"
    /\ returned = << >> /\ repeat = FALSE
    /\ pElem \in ParaElems
    /\ para = DefaultParagraph
    /\ pstatus = "idle"

\* a style resolved for an earlier paragraph of the same document
ResolveEarlier(id) ==
    /\ pstatus = "idle"
    /\ cache = EmptyCache
    /\ LET out == mergeStyleCached(styles, cache, id, StackLimit)
       IN  /\ out.ok
           /\ cache' = out.cache
    /\ UNCHANGED <<styles, req, res, status, returned, repeat, coalescerVars,
                   paraVars, readVars, concVars>>

ReadParagraph ==
    /\ pstatus = "idle"
    /\ LET out == readParagraph(pElem, styles, cache)
       IN  /\ para' = out.value
           /\ cache' = out.cache
           /\ pstatus' = out.status
    /\ UNCHANGED <<styles, req, res, status, returned, repeat, coalescerVars,
                   pElem, readVars, concVars>>

NextPara ==
    \/ \E id \in StyleIds \cup {"X"} : ResolveEarlier(id)
    \/ ReadParagraph

SpecPara == InitPara /\ [][NextPara]_vars

\* ---------------------------------------------- inputs of the entry points
StyleElem(id, type, basedOn, rPr, pPr) ==
    [styleId |-> id, type |-> type, basedOn |-> basedOn, rPr |-> rPr,
     pPr |-> pPr]
NoteElem(id, type, paras) == [id |-> id, type |-> type, paras |-> paras]
StylesXml(elems) == [root |-> "w:styles", styles |-> elems]
NotesXml(root, notes) == [root |-> root, notes |-> notes]
DocumentXml(body) == [root |-> "w:document", body |-> body]

PlainR(cs) == [NoRun EXCEPT !.t = TextElem(cs, "")]
BoldR(cs) == [NoRun EXCEPT !.t = TextElem(cs, ""),
                           !.rPr = Some([NoRPr EXCEPT !.b = TRUE])]
BadSzR == [NoRun EXCEPT !.t = TextElem(<<"d">>, ""),
                        !.rPr = Some([NoRPr EXCEPT !.sz = Some(<<"a", "b", "c">>)])]
FootRefR(id) == [NoRun EXCEPT !.footnoteReference = NoteRef(Some(id), << >>)]

GoodStyles ==
    StylesXml(<<
        StyleElem(Some("A"), Some("paragraph"), "B",
                  Some([NoRPr EXCEPT !.b = TRUE]), Absent),
        StyleElem(Some("B"), Some("character"), "",
                  Some([NoRPr EXCEPT !.i = TRUE, !.sz = Some(<<"2", "4">>),
                           !.color = Some(<<"F", "F", "0", "0", "0", "0">>)]),
                  Absent),
        StyleElem(Absent, Absent, "", Absent, Absent),
        StyleElem(Some("Normal"), Some("paragraph"), "", Absent,
                  Some([NoPPr EXCEPT !.jc = "center",
                           !.line = Some(<<"3", "6", "0">>),
                           !.after = Some(<<"1", "2", "0">>)])) >>)
BadSzStyles ==
    StylesXml(<<
        StyleElem(Some("A"), Some("paragraph"), "",
                  Some([NoRPr EXCEPT !.sz = Some(<<"a", "b", "c">>)]), Absent) >>)
BadLineStyles ==
    StylesXml(<<
        StyleElem(Some("Normal"), Some("paragraph"), "", Absent,
                  Some([NoPPr EXCEPT !.line = Some(<< >>)])) >>)
\* style A without a w:line of its own, based on B that sets w:line="360"
LineStyles ==
    StylesXml(<<
        StyleElem(Some("A"), Some("paragraph"), "B",
                  Some([NoRPr EXCEPT !.i = TRUE]), Absent),
        StyleElem(Some("B"), Some("paragraph"), "",
                  Absent, Some([NoPPr EXCEPT !.line = Some(<<"3", "6", "0">>)])) >>)
CycleStyles ==
    StylesXml(<<
        StyleElem(Some("A"), Some("paragraph"), "B",
                  Some([NoRPr EXCEPT !.i = TRUE]), Absent),
        StyleElem(Some("B"), Some("paragraph"), "A",
                  Some([NoRPr EXCEPT !.b = TRUE]), Absent) >>)

GoodDocument ==
    DocumentXml(Some(<<
        [pPr |-> Some([NoPPr EXCEPT !.pStyle = "A"]),
         runs |-> <<BoldR(<<"b">>), PlainR(<<"a">>), FootRefR(<<"1">>)>>],
        [pPr |-> Absent, runs |-> <<PlainR(<<"a">>), PlainR(<<"c">>)>>] >>))
BadParaDocument ==
    DocumentXml(Some(<<
        [pPr |-> Some([NoPPr EXCEPT !.indLeft = Some(<<"x">>)]),
         runs |-> <<PlainR(<<"a">>)>>] >>))
NoBodyDocument == DocumentXml(Absent)

GoodFootnotes ==
    NotesXml("w:footnotes", <<
        NoteElem(Some(<<"-", "1">>), "separator", << >>),
        NoteElem(Some(<<"0">>), "continuationSeparator", << >>),
        NoteElem(Some(<<"1">>), "",
                 <<[pPr |-> Absent, runs |-> <<PlainR(<<"n">>)>>]>>),
        NoteElem(Absent, "", << >>),
        NoteElem(Some(<<"3">>), "",
                 <<[pPr |-> Absent, runs |-> <<BoldR(<<"m">>)>>],
                   [pPr |-> Some([NoPPr EXCEPT !.pStyle = "A"]),
                    runs |-> <<PlainR(<<"n">>)>>]>>) >>)
BadRunFootnotes ==
    NotesXml("w:footnotes", <<
        NoteElem(Some(<<"1">>), "",
                 <<[pPr |-> Absent, runs |-> <<BadSzR>>]>>) >>)
GoodEndnotes ==
    NotesXml("w:endnotes", <<
        NoteElem(Some(<<"2">>), "",
                 <<[pPr |-> Some([NoPPr EXCEPT !.pStyle = "B"]),
                    runs |-> <<BoldR(<<"e">>)>>]>>) >>)

Contents(st, dc, fn, en) ==
    [n \in FileNames |->
        IF n = "word/styles.xml" THEN st
        ELSE IF n = "word/document.xml" THEN dc
        ELSE IF n = "word/footnotes.xml" THEN fn ELSE en]

\* the contents the archives are built from
ContentSet ==
    { Contents(GoodStyles, GoodDocument, GoodFootnotes, GoodEndnotes),
      Contents(BadSzStyles, GoodDocument, GoodFootnotes, GoodEndnotes),
      Contents(BadLineStyles, GoodDocument, GoodFootnotes, GoodEndnotes),
      Contents(GoodStyles, BadParaDocument, GoodFootnotes, GoodEndnotes),
      Contents(GoodStyles, GoodDocument, BadRunFootnotes, GoodEndnotes),
      Contents(LineStyles, GoodDocument, GoodFootnotes, GoodEndnotes),
      Contents(CycleStyles, GoodDocument, GoodFootnotes, GoodEndnotes),
      Contents(GoodStyles, NoBodyDocument, GoodFootnotes, EmptyBuffer) }

\* the archives: one that cannot be opened, and those that open and hold
\* any of the four entries
Archives ==
    { ClosedArchive } \cup
    { [opens |-> TRUE, files |-> [n \in S |-> ct[n]]] :
        ct \in ContentSet, S \in SUBSET FileNames }

\* the two entry points, called one after the other in one process
InitRead ==
    /\ ResolverIdle
    /\ CoalescerIdle
    /\ ParaIdle
    /\ ReadIdle
    /\ ConcIdle

\* what a top-level read leaves behind
Finish(a, which, out) ==
    /\ archive' = a
    /\ api' = which
    /\ doc' = out.doc
    /\ dstatus' = out.status
    /\ cache' = out.cache
    /\ styles' = out.doc.styles
    /\ UNCHANGED <<req, res, status, returned, repeat, coalescerVars, paraVars,
                   concVars>>

ReadDocument(a) ==
    /\ dstatus # "overflow"
    /\ \E out \in {readDocument(a, cache)} : Finish(a, "path", out)

ReadDocumentFromMemory(a) ==
    /\ dstatus # "overflow"
    /\ \E out \in {readDocumentFromMemory(a, cache)} : Finish(a, "memory", out)

NextRead ==
    \/ \E a \in Archives : ReadDocument(a)
    \/ \E a \in Archives : ReadDocumentFromMemory(a)

SpecRead == InitRead /\ [][NextRead]_vars

\* ------------------------------------------ two reads on two threads
\* readDocumentFromMemory called on two threads of one process, each on its
\* own archive.  g_mergedStyleCache is one object for both; the Document
\* under construction and the parsed style map are locals of each call.
Threads == {1, 2}

\* the archives the threads read: styles.xml and document.xml only, well
\* formed, so that a read running alone returns
ConcArchives ==
    { [opens |-> TRUE,
       files |-> [n \in {"word/styles.xml", "word/document.xml"} |-> ct[n]]] :
        ct \in { Contents(GoodStyles, GoodDocument, GoodFootnotes, GoodEndnotes),
                 Contents(LineStyles, GoodDocument, GoodFootnotes, GoodEndnotes) } }

\* the <w:p> children parseMainDocument loops over (lines 803-812)
BodyOf(a) == Get(FileData(readMultipleFilesFromZIP(a), "word/document.xml").body)

\* a thread that has not yet entered readDocumentFromMemory(a)
ThreadStart(a) ==
    [job |-> a, pc |-> "start", sm |-> << >>, next |-> 1, paras |-> << >>,
     doc |-> EmptyDocument]

InitConc ==
    /\ ResolverIdle
    /\ CoalescerIdle
    /\ ParaIdle
    /\ ReadIdle
    /\ threads \in [Threads -> { ThreadStart(a) : a \in ConcArchives }]

\* readDocumentFromMemory lines 863-876: the cache is cleared, the entries
\* are read and styles.xml is parsed
Enter(t) ==
    /\ threads[t].pc = "start"
    /\ cache' = ClearCache(cache)
    /\ threads' = [threads EXCEPT
          ![t].pc = "body",
          ![t].sm = parseStyles(FileData(readMultipleFilesFromZIP(threads[t].job),
                                         "word/styles.xml")).value]
    /\ UNCHANGED <<styles, req, res, status, returned, repeat, coalescerVars,
                   paraVars, readVars>>

\* parseMainDocument lines 811-816: the next <w:p> is read, on the cache as
\* the other thread has left it
ReadNext(t) ==
    /\ threads[t].pc = "body"
    /\ threads[t].next <= Len(BodyOf(threads[t].job))
    /\ \E one \in { readParagraph(BodyOf(threads[t].job)[threads[t].next],
                                  threads[t].sm, cache) } :
          /\ cache' = one.cache
          /\ threads' = [threads EXCEPT
                ![t].pc = IF one.status = "ok" THEN "body" ELSE one.status,
                ![t].next = @ + 1,
                ![t].paras = IF one.status = "ok" THEN Append(@, one.value)
                             ELSE @]
    /\ UNCHANGED <<styles, req, res, status, returned, repeat, coalescerVars,
                   paraVars, readVars>>

\* readDocumentFromMemory line 883: return doc
Return(t) ==
    /\ threads[t].pc = "body"
    /\ threads[t].next > Len(BodyOf(threads[t].job))
    /\ threads' = [threads EXCEPT
          ![t].pc = "done",
          ![t].doc = [paragraphs |-> threads[t].paras, styles |-> threads[t].sm,
                      footnotes |-> << >>, endnotes |-> << >>]]
    /\ UNCHANGED <<resolverVars, coalescerVars, paraVars, readVars>>

\* two threads inside the unsynchronised std::unordered_map at once is a
\* data race: one of the outcomes is that the process dies
Corrupt(t) ==
    /\ \A u \in Threads : threads[u].pc = "body"
    /\ threads' = [threads EXCEPT ![t].pc = "crashed"]
    /\ UNCHANGED <<resolverVars, coalescerVars, paraVars, readVars>>

NextConc ==
    \E t \in Threads : Enter(t) \/ ReadNext(t) \/ Return(t) \/ Corrupt(t)

SpecConc == InitConc /\ [][NextConc]_vars

\* ------------------------------------------------- the basedOn chain, directly
RECURSIVE ChainFrom(_, _, _)
\* the styles met from id along basedOn, nearest first, at most n of them
ChainFrom(sm, id, n) ==
    IF n = 0 \/ id = "" \/ id \notin DOMAIN sm THEN << >>
    ELSE <<id>> \o ChainFrom(sm, sm[id].basedOn, n - 1)

Chain(sm, id) == ChainFrom(sm, id, Cardinality(DOMAIN sm) + 1)

\* the chain from id ends (at "", or at an id the map does not define)
Acyclic(sm, id) == Len(Chain(sm, id)) <= Cardinality(DOMAIN sm)

\* the style map of the cycle scenario: A.basedOn = B, B.basedOn = A,
\* A.italic, B.bold
IsCycleAB(sm) ==
    /\ {"A", "B"} \subseteq DOMAIN sm
    /\ sm["A"].basedOn = "B" /\ sm["B"].basedOn = "A"
    /\ sm["A"] = [ItalicStyle EXCEPT !.basedOn = "B"]
    /\ sm["B"] = [BoldStyle EXCEPT !.basedOn = "A"]

\* ---------------------------------------------------------------- claims
\* C1: for every style map, cyclic ones included, and every id,
\* mergeStyleCached(map, id) terminates: no call is left without a return.
C1_ResolveTerminates == status # "overflow"

\* C2: on the map A.basedOn = B, B.basedOn = A, A.italic, B.bold and an empty
\* cache, the call for "A" returns a Style with italic and bold both true.
C2_CycleAccumulates ==
    [][ (IsCycleAB(styles) /\ cache = EmptyCache /\ req' = "A"
            /\ status' # "idle")
        => (status' = "returned" /\ res'.italic /\ res'.bold) ]_vars

\* C7: within one load, a call of mergeStyleCached for an id that was asked
\* for before returns a Style equal to the one the first call returned.
C7_ResolveIdempotent ==
    (status = "returned" /\ req \in DOMAIN returned) => res = returned[req]

C7_Witness ==
    /\ status = "returned" /\ repeat
    /\ Len(Chain(styles, req)) >= 2
    /\ Len(res.tabs) = 2

\* C8: on an acyclic chain each boolean field of the resolved Style is true
\* exactly when some style on the chain from id to its root has it true.
C8_StickyTrue ==
    (status = "returned" /\ Acyclic(styles, req)) =>
        \A f \in BoolFields :
            res[f] = (\E i \in 1..Len(Chain(styles, req)) :
                        styles[Chain(styles, req)[i]][f])

C8_Witness ==
    /\ status = "returned" /\ Acyclic(styles, req)
    /\ Len(Chain(styles, req)) >= 2
    /\ res.bold /\ ~styles[req].bold
    /\ ~res.numbered


\* C5: the concatenation of the run texts, in order, is the same before and
\* after mergeAdjacentRuns; a vector of no Runs stays a vector of no Runs.
C5_CoalescePreservesText ==
    /\ ConcatText(runs) = ConcatText(source)
    /\ (source = << >> => runs = << >>)

C5_Witness ==
    /\ passes >= 1
    /\ Len(runs) < Len(source)
    /\ Len(runs) >= 2
    /\ Len(ConcatText(runs)) >= 3

\* C6: applying mergeAdjacentRuns twice yields the same vector (length,
\* fields, texts) as applying it once.
C6_CoalesceIdempotent == passes >= 2 => runs = prev

C6_Witness ==
    /\ passes = 2
    /\ Len(prev) < Len(source)
    /\ Len(prev) >= 2

\* the <w:r> children of p that readParagraph treats as note references
IsNoteRef(r) == Has(r.footnoteReference) /\ Has(Get(r.footnoteReference).id)
IsNoteRun(r) == r.noteId # 0

\* the Runs the note references of rs are to yield, in document order
RECURSIVE NoteRunsOf(_)
NoteRunsOf(rs) ==
    IF rs = << >> THEN << >>
    ELSE IF IsNoteRef(Head(rs))
    THEN <<NoteRefRun(Get(Head(rs).footnoteReference))>> \o NoteRunsOf(Tail(rs))
    ELSE NoteRunsOf(Tail(rs))

\* the style fingerprint of a Run
Fingerprint(r) ==
    <<r.style, r.lang, r.bold, r.italic, r.underline, r.strike, r.subscript,
      r.superscript, r.color, r.backColor, r.fontFamily, r.fontSize>>

\* C3: every <w:r> carrying a footnote reference yields its own Run in the
\* Paragraph, with its noteId and its text as read: the note Runs of the
\* result are exactly those of the source, in order, none absorbed into a
\* neighbour and none extended by one.
C3_NoteRunsKept ==
    pstatus = "ok" => SelectSeq(para.runs, IsNoteRun) = NoteRunsOf(pElem.runs)

\* C4: after coalescing, no two adjacent non-note Runs of a Paragraph have
\* equal style fingerprints.
C4_NoEqualNeighbours ==
    pstatus = "ok" =>
        \A k \in 1..(Len(para.runs) - 1) :
            (~IsNoteRun(para.runs[k]) /\ ~IsNoteRun(para.runs[k + 1]))
                => Fingerprint(para.runs[k]) # Fingerprint(para.runs[k + 1])

C4_Witness ==
    /\ pstatus = "ok"
    /\ Len(pElem.runs) = 3
    /\ \A k \in 1..3 : ~IsNoteRef(pElem.runs[k])
    /\ Len(para.runs) = 2
    /\ Len(para.runs[1].text) = 2

\* the archive a with every missing entry present as an empty buffer
Completed(a) ==
    [a EXCEPT !.files = [n \in FileNames |-> FileData(a.files, n)]]

ReadVia(which, a, c) ==
    IF which = "path" THEN readDocument(a, c) ELSE readDocumentFromMemory(a, c)

\* C9: readDocument and readDocumentFromMemory never raise: with a malformed
\* numeric attribute (w:sz, w:line, w:left, ...) in styles.xml or in a
\* paragraph or run, the call still returns a Document.
C9_NeverRaises == dstatus # "threw"

\* C10: an archive that cannot be opened yields the empty Document from both
\* entry points; an archive that opens but lacks entries is read as the same
\* archive with the missing entries present as empty buffers.
C10_UnopenedOrMissing ==
    dstatus # "idle" =>
        /\ ~archive.opens => (dstatus = "returned" /\ doc = EmptyDocument)
        /\ archive.opens =>
              LET full == ReadVia(api, Completed(archive), EmptyCache)
              IN  dstatus = full.status /\ doc = full.doc

C10_Witness ==
    /\ dstatus = "returned"
    /\ archive.opens
    /\ DOMAIN archive.files = {"word/document.xml", "word/styles.xml"}
    /\ api = "path"
    /\ Len(doc.paragraphs) = 2

\* C11: two top-level reads running concurrently on different inputs do not
\* share the resolver cache: under every interleaving each read returns the
\* Document it returns when run alone.
C11_ReadsIsolated ==
    \A t \in Threads :
        threads[t].pc = "done" =>
            threads[t].doc = readDocumentFromMemory(threads[t].job, EmptyCache).doc

\* the six flags of a Run: the field of Run, the field of Style it is
\* inherited from, and the child of <w:rPr> that sets it inline
RunFlags ==
    { <<"bold", "bold", "b">>, <<"italic", "italic", "i">>,
      <<"underline", "underline", "u">>, <<"strike", "strikeThrough", "strike">>,
      <<"subscript", "Subscript", "subscript">>,
      <<"superscript", "Superscript", "superscript">> }

\* a flag of the style the run r of the paragraph p resolves to: some style
\* on the chain from the run's style has it
InheritedFlag(sm, p, r, f) ==
    \E i \in 1..Len(Chain(sm, RunStyleId(Get(r.rPr), ParaStyleId(p)))) :
        sm[Chain(sm, RunStyleId(Get(r.rPr), ParaStyleId(p)))[i]][f]

\* the flags the run r of the paragraph p is to be emitted with
FlagsOf(sm, p, r) ==
    [fl \in RunFlags |-> Get(r.rPr)[fl[3]] \/ InheritedFlag(sm, p, r, fl[2])]

\* the paragraphs all of whose runs are non-note runs with a <w:rPr>
AllStyledRuns(p) ==
    /\ p.runs # << >>
    /\ \A k \in 1..Len(p.runs) : ~IsNoteRef(p.runs[k]) /\ Has(p.runs[k].rPr)

\* C14: for every non-note run with a <w:rPr>, each of bold, italic,
\* underline, strike, subscript, superscript of the emitted Run is true
\* exactly when the resolved run style has it true or the matching element is
\* present inline (coalescing joins only Runs with equal flags, so the
\* flag vectors emitted are those of the source runs).
C14_FlagsAdditive ==
    (pstatus = "ok" /\ AllStyledRuns(pElem)) =>
        { [fl \in RunFlags |-> para.runs[k][fl[1]]] : k \in 1..Len(para.runs) }
          = { FlagsOf(styles, pElem, pElem.runs[k]) : k \in 1..Len(pElem.runs) }

\* an inline <w:b> over a style without bold, next to a run whose bold is
\* inherited only
C14_Witness ==
    /\ pstatus = "ok" /\ AllStyledRuns(pElem)
    /\ Len(para.runs) = 2
    /\ \E k \in 1..Len(pElem.runs) :
          /\ Get(pElem.runs[k].rPr).b
          /\ ~InheritedFlag(styles, pElem, pElem.runs[k], "bold")
    /\ \E k \in 1..Len(pElem.runs) :
          /\ ~Get(pElem.runs[k].rPr).b
          /\ InheritedFlag(styles, pElem, pElem.runs[k], "bold")
          /\ Get(pElem.runs[k].rPr).u

\* Run::noteId is a uint32_t, held as the int of the same bit pattern: it is
\* greater than 0 unless all its bits are 0, and it equals the integer id
\* only when that is not negative
NoteIdPositive(n) == n # 0
NoteIdEquals(n, id) == n >= 0 /\ n = id

\* C15: a Run emitted for a note reference has noteId > 0 equal to the
\* referenced w:id, whatever integer the attribute holds, and every other Run
\* has noteId = 0 (stated on the paragraphs of one <w:r>, where coalescing
\* has nothing to join).
C15_NoteIds ==
    (pstatus = "ok" /\ Len(pElem.runs) = 1) =>
        /\ Len(para.runs) = 1
        /\ IF IsNoteRef(pElem.runs[1])
           THEN /\ NoteIdPositive(para.runs[1].noteId)
                /\ NoteIdEquals(para.runs[1].noteId,
                                Atoi(Get(Get(pElem.runs[1].footnoteReference).id)))
           ELSE para.runs[1].noteId = 0

\* the entries of a notes buffer under the root element `root` that carry a
\* w:id and whose w:type is neither "separator" nor "continuationSeparator"
NoteEntries(xml, root) ==
    IF xml.root # root THEN { }
    ELSE { i \in 1..Len(xml.notes) :
             /\ Has(xml.notes[i].id)
             /\ xml.notes[i].type # "separator"
             /\ xml.notes[i].type # "continuationSeparator" }

\* the note map `map` holds the entries of xml: its keys are their ids, and
\* under each key is the Note of that id with the entry's paragraphs, in order
NotesMatch(map, xml, root, sm) ==
    /\ DOMAIN map = { Atoi(Get(xml.notes[i].id)) : i \in NoteEntries(xml, root) }
    /\ \A key \in DOMAIN map :
          /\ map[key].id = key
          /\ \E i \in NoteEntries(xml, root) :
                /\ Atoi(Get(xml.notes[i].id)) = key
                /\ Len(map[key].paragraphs) = Len(xml.notes[i].paras)
                /\ \A k \in 1..Len(xml.notes[i].paras) :
                      map[key].paragraphs[k] =
                          readParagraph(xml.notes[i].paras[k], sm, EmptyCache).value

\* C16: after parsing footnotes.xml, and endnotes.xml, the key set of the
\* note map is the set of w:id values of the entries that are no separators;
\* each Note's id is its key and its paragraphs are the entry's <w:p>
\* children in document order.
C16_NoteMaps ==
    dstatus = "returned" =>
        /\ NotesMatch(doc.footnotes, FileData(archive.files, "word/footnotes.xml"),
                      "w:footnotes", doc.styles)
        /\ NotesMatch(doc.endnotes, FileData(archive.files, "word/endnotes.xml"),
                      "w:endnotes", doc.styles)

C16_Witness ==
    /\ dstatus = "returned"
    /\ FileData(archive.files, "word/footnotes.xml").root = "w:footnotes"
    /\ Len(FileData(archive.files, "word/footnotes.xml").notes) = 5
    /\ FileData(archive.files, "word/endnotes.xml").root = "w:endnotes"
    /\ DOMAIN doc.footnotes = {1, 3}
    /\ Len(doc.footnotes[3].paragraphs) = 2
    /\ doc.footnotes[3].paragraphs[2].style = "A"
    /\ DOMAIN doc.endnotes = {2}

\* the <w:style> children of the styles.xml of the archive a
StyleElemsOf(a) ==
    IF FileData(a.files, "word/styles.xml").root = "w:styles"
    THEN FileData(a.files, "word/styles.xml").styles ELSE << >>

\* the <w:style> element that defines id: the first one of that w:styleId
ElemOf(elems, id) ==
    elems[CHOOSE i \in 1..Len(elems) :
            /\ elems[i].styleId = Some(id)
            /\ \A j \in 1..(i - 1) : elems[j].styleId # Some(id)]

\* the <w:style> element sets a line spacing of its own
OwnLine(se) == Has(se.pPr) /\ Has(Get(se.pPr).line)

\* the positions on the chain from id of the styles that set a line spacing
LineSetters(elems, sm, id) ==
    { i \in 1..Len(Chain(sm, id)) : OwnLine(ElemOf(elems, Chain(sm, id)[i])) }

\* the smallest member of a non-empty set of positions
Nearest(S) == CHOOSE i \in S : \A j \in S : i <= j

\* C17: a style without a w:line of its own resolves to the lineSpacing of
\* its nearest ancestor that sets one (A based on B, B with w:line="360":
\* resolve(map, A).lineSpacing is 1.5).
C17_LineSpacingInherited ==
    dstatus = "returned" =>
        \A id \in DOMAIN cache \cap DOMAIN doc.styles :
            (Acyclic(doc.styles, id)
               /\ LineSetters(StyleElemsOf(archive), doc.styles, id) # { }) =>
                cache[id].lineSpacing =
                    StofDiv(Get(Get(ElemOf(StyleElemsOf(archive),
                               Chain(doc.styles, id)[
                                  Nearest(LineSetters(StyleElemsOf(archive),
                                                      doc.styles, id))]).pPr).line),
                            240)

\* the fields of Style that a style overrides only when it sets them
StringFields == {"fontFamily", "numberFormat", "numberStyle"}
ColorFields == {"color", "backColor"}
NumberFields == {"fontSize", "spaceBefore", "spaceAfter", "indentLeft",
                 "indentRight", "indentFirstLine", "level"}
NearestFields ==
    StringFields \cup ColorFields \cup NumberFields \cup {"justification"}

\* the field f is set in the Style st
IsSet(st, f) ==
    IF f \in StringFields THEN st[f] # ""
    ELSE IF f \in ColorFields THEN ~ColorEmpty(st[f])
    ELSE IF f \in NumberFields THEN st[f] > 0
    ELSE st[f] # "Left"

\* the positions on the chain from id of the styles that set the field f
Setters(sm, id, f) ==
    { i \in 1..Len(Chain(sm, id)) : IsSet(sm[Chain(sm, id)[i]], f) }

\* C18: on an acyclic chain each of fontFamily, fontSize, color, backColor,
\* numberFormat, numberStyle, spaceBefore, spaceAfter, indentLeft,
\* indentRight, indentFirstLine, level and justification of the resolved
\* Style is the value of the nearest style on the chain, from id itself on,
\* that sets the field, and the unset value when none does.
C18_NearestSetWins ==
    (status = "returned" /\ Acyclic(styles, req)) =>
        \A f \in NearestFields :
            res[f] = IF Setters(styles, req, f) = { } THEN DefaultStyle[f]
                     ELSE styles[Chain(styles, req)[
                                    Nearest(Setters(styles, req, f))]][f]

\* a field taken from the style itself, one from its ancestor, one unset
C18_Witness ==
    /\ status = "returned" /\ Acyclic(styles, req)
    /\ Len(Chain(styles, req)) >= 2
    /\ Nearest(Setters(styles, req, "fontFamily") \cup {9}) = 1
    /\ Nearest(Setters(styles, req, "backColor") \cup {9}) = 2
    /\ res.backColor = Yellow
    /\ res.fontFamily = "Arial"
    /\ Setters(styles, req, "numberStyle") # { }

RECURSIVE TabsAlong(_, _)
\* the tab lists of the styles of a chain (nearest first), from the root down
TabsAlong(sm, chain) ==
    IF chain = << >> THEN << >>
    ELSE TabsAlong(sm, Tail(chain)) \o sm[Head(chain)].tabs

\* C19: on an acyclic chain the tabs of the resolved Style are the tab lists
\* of the styles of the chain, from the root down to id, each once, however
\* the styles of the chain were resolved before.
C19_TabsAppended ==
    (status = "returned" /\ Acyclic(styles, req)) =>
        res.tabs = TabsAlong(styles, Chain(styles, req))

\* both styles of a chain of two bring a tab, and the chain was resolved before
C19_Witness ==
    /\ status = "returned" /\ Acyclic(styles, req)
    /\ Len(Chain(styles, req)) >= 2
    /\ repeat
    /\ res.tabs = <<Tab2, Tab1>>

\* C20: mergeStyleCached for a non-empty id the style map does not hold
\* returns the default Style and leaves it in the cache under that id;
\* for the empty id it returns the default Style and leaves the cache as it was.
C20_UnknownAndEmpty ==
    [][ (status' = "returned") =>
          /\ (req' = "" => (res' = DefaultStyle /\ cache' = cache))
          /\ ((req' # "" /\ req' \notin DOMAIN styles) =>
                 /\ res' = DefaultStyle
                 /\ req' \in DOMAIN cache'
                 /\ cache'[req'] = DefaultStyle) ]_vars

C20_Witness ==
    /\ status = "returned"
    /\ req = "X"
    /\ "X" \in DOMAIN cache
    /\ DOMAIN cache # {"X"}

\* C12: whenever readDocument or readDocumentFromMemory returns, on any path,
\* the resolver cache holds no entries.
C12_CacheClearedAtExit == dstatus = "returned" => cache = EmptyCache

\* C13: in any sequence of top-level reads in one process, the Document
\* returned for an input is the Document the same input yields as the first
\* read of a fresh process.
C13_PureAcrossCalls ==
    dstatus # "idle" =>
        LET fresh == ReadVia(api, archive, EmptyCache)
        IN  dstatus = fresh.status /\ doc = fresh.doc

\* a read of the archive whose style A is italic and not bold has returned
C13_Witness ==
    /\ dstatus = "returned"
    /\ Len(doc.paragraphs) = 2
    /\ "A" \in DOMAIN doc.styles
    /\ doc.styles["A"].italic
    /\ ~doc.styles["A"].bold
    /\ doc.paragraphs[1].runs[1].italic

\* C21: basedOn takes part in the merge like the other string fields: the
\* resolved Style of a style with a non-empty basedOn has that basedOn.
C21_BasedOnMerged ==
    (status = "returned" /\ req \in DOMAIN styles /\ Acyclic(styles, req)
       /\ styles[req].basedOn # "") =>
        res.basedOn = styles[req].basedOn

\* the <w:r> children that carry an endnote reference with a w:id
IsEndnoteRef(r) == Has(r.endnoteReference) /\ Has(Get(r.endnoteReference).id)

\* C22: a <w:r> containing <w:endnoteReference w:id="N"> emits a Run with
\* noteId = N and the text of the reference element, and nothing else is
\* extracted for it (stated on the paragraphs of one <w:r>).
C22_EndnoteReference ==
    (pstatus = "ok" /\ Len(pElem.runs) = 1 /\ IsEndnoteRef(pElem.runs[1])) =>
        para.runs =
            << [DefaultRun EXCEPT
                  !.noteId = Atoi(Get(Get(pElem.runs[1].endnoteReference).id)),
                  !.text = Get(pElem.runs[1].endnoteReference).text] >>

\* the fields of Paragraph that are seeded from the resolved paragraph style
SeededFields ==
    {"numbered", "numberFormat", "numberStyle", "level", "justification",
     "rightDirection", "lineSpacing", "spaceBefore", "spaceAfter",
     "spaceBetweenSameStyle", "indentLeft", "indentRight", "indentFirstLine",
     "tabs"}

\* the <w:p> gives no direct paragraph property: it has no <w:pPr>, or one
\* that holds at most a <w:pStyle>
NoDirectProps(p) ==
    \/ ~Has(p.pPr)
    \/ Get(p.pPr) = [NoPPr EXCEPT !.pStyle = Get(p.pPr).pStyle]

\* C23: for every <w:p>, with or without a <w:pPr>, the Paragraph's numbering,
\* justification, direction, spacing, indentation and tabs are seeded from
\* the resolved style pStyleId, "Normal" when no <w:pStyle> is given (stated
\* on the paragraphs without direct properties, where the seed is what is
\* returned).
C23_SeededFromStyle ==
    (pstatus = "ok" /\ NoDirectProps(pElem)) =>
        \A f \in SeededFields :
            para[f] = mergeStyleCached(styles, EmptyCache, ParaStyleId(pElem),
                                       StackLimit).result[f]

\* the Justification a w:jc value stands for
JustificationOf(val) ==
    IF val = "center" THEN "Center"
    ELSE IF val = "right" THEN "Right"
    ELSE IF val = "both" THEN "Justify" ELSE "Left"

\* C24: when <w:pPr> contains <w:jc>, the Paragraph's justification is the
\* one the direct value gives (center, right, both: Center, Right, Justify;
\* anything else: Left), whatever the resolved paragraph style has.
C24_DirectJustification ==
    (pstatus = "ok" /\ Has(pElem.pPr) /\ Get(pElem.pPr).jc # "") =>
        para.justification = JustificationOf(Get(pElem.pPr).jc)

\* the character properties of a Run, each with the field of Style it is
\* taken from
CharFields ==
    { <<"bold", "bold">>, <<"italic", "italic">>, <<"underline", "underline">>,
      <<"strike", "strikeThrough">>, <<"subscript", "Subscript">>,
      <<"superscript", "Superscript">>, <<"color", "color">>,
      <<"backColor", "backColor">>, <<"fontFamily", "fontFamily">>,
      <<"fontSize", "fontSize">> }

\* a run that is no note reference and gives neither a run style nor a
\* direct property: it has no <w:rPr>, or an empty one
PlainSourceRun(r) ==
    /\ ~IsNoteRef(r) /\ ~IsEndnoteRef(r)
    /\ (~Has(r.rPr) \/ Get(r.rPr) = NoRPr)

\* C25: every non-note run that names no run style, a run without <w:rPr>
\* included, receives the character properties of the resolved paragraph
\* style (stated on the paragraphs of one such <w:r>).
C25_RunsInheritParagraphStyle ==
    (pstatus = "ok" /\ Len(pElem.runs) = 1 /\ PlainSourceRun(pElem.runs[1])) =>
        /\ Len(para.runs) = 1
        /\ \A cf \in CharFields :
              para.runs[1][cf[1]] =
                  mergeStyleCached(styles, EmptyCache, ParaStyleId(pElem),
                                   StackLimit).result[cf[2]]

\* C26: every emitted non-note Run carries as styleId the rStyleId its
\* character properties were resolved from, so that runs of different run
\* styles are told apart by their fingerprints (stated on the paragraphs of
\* one <w:r> with a <w:rPr>).
C26_RunCarriesStyleId ==
    (pstatus = "ok" /\ Len(pElem.runs) = 1
       /\ ~IsNoteRef(pElem.runs[1]) /\ ~IsEndnoteRef(pElem.runs[1])
       /\ Has(pElem.runs[1].rPr)) =>
        /\ Len(para.runs) = 1
        /\ para.runs[1].style =
              RunStyleId(Get(pElem.runs[1].rPr), ParaStyleId(pElem))

\* C27: the style map of the returned Document is the output of parseStyles:
\* whatever the note and body readers resolved, every Style of the map holds
\* the fields and the basedOn its own <w:style> element declares, and nothing
\* inherited.
C27_StylesRaw ==
    dstatus = "returned" =>
        /\ doc.styles =
              parseStyles(FileData(readMultipleFilesFromZIP(archive),
                                   "word/styles.xml")).value
        /\ \A id \in DOMAIN doc.styles :
              doc.styles[id] = StyleOf(ElemOf(StyleElemsOf(archive), id))

\* a read has returned in which style A, bold and based on the italic B, was
\* resolved for the first paragraph: the cache holds the merged A, the
\* Document the parsed one
C27_Witness ==
    /\ dstatus = "returned"
    /\ {"A", "B"} \subseteq DOMAIN doc.styles
    /\ doc.styles["A"].basedOn = "B"
    /\ doc.styles["B"].italic /\ ~doc.styles["A"].italic
    /\ "A" \in DOMAIN cache /\ cache["A"].italic /\ cache["A"].bold
    /\ Len(doc.paragraphs) = 2
    /\ doc.paragraphs[1].style = "A"

\* C28: for an acyclic style map, after any sequence of calls of
\* mergeStyleCached that started from the cleared cache, every cache entry of
\* a styleId is the Style the call for that id computes on an empty cache,
\* and so is the Style the last call returned, whichever ids (ancestors,
\* descendants, unknown ids) were resolved before it.
C28_CacheCoherent ==
    (\A id \in DOMAIN styles : Acyclic(styles, id)) =>
        /\ \A id \in DOMAIN cache :
              cache[id] =
                  mergeStyleCached(styles, EmptyCache, id, StackLimit).result
        /\ status = "returned" =>
              res = mergeStyleCached(styles, EmptyCache, req, StackLimit).result

\* on an acyclic map a style with an ancestor has been resolved after its
\* ancestor, a third style and an unknown id were
C28_Witness ==
    /\ \A id \in DOMAIN styles : Acyclic(styles, id)
    /\ status = "returned" /\ ~repeat
    /\ req \in DOMAIN styles
    /\ Len(Chain(styles, req)) >= 2
    /\ Chain(styles, req)[2] \in DOMAIN returned
    /\ Cardinality(DOMAIN returned) >= 4
    /\ "X" \in DOMAIN cache
    /\ res.italic /\ ~styles[req].italic

\* the entry point that was not called
OtherApi(which) == IF which = "path" THEN "memory" ELSE "path"

\* C29: for the same archive contents readDocument and readDocumentFromMemory
\* come to the same end with equal Documents (styles, footnotes, endnotes and
\* paragraphs), an archive that opens but holds none of the four entries
\* included.
C29_EntryPointsAgree ==
    dstatus # "idle" =>
        /\ dstatus = ReadVia(OtherApi(api), archive, EmptyCache).status
        /\ doc = ReadVia(OtherApi(api), archive, EmptyCache).doc

\* readDocumentFromMemory has returned from an archive that opens and holds
\* none of the four entries
C29_Witness ==
    /\ dstatus = "returned"
    /\ api = "memory"
    /\ archive.opens
    /\ DOMAIN archive.files = {}
    /\ doc = EmptyDocument

\* the j-th smallest index of the set S of group starts
NthStart(S, j) == CHOOSE s \in S : Cardinality({t \in S : t <= s}) = j

\* the last index of the j-th group of a vector of n Runs
GroupEnd(S, n, j) == IF j = Cardinality(S) THEN n ELSE NthStart(S, j + 1) - 1

\* the vector out holds one Run per group of consecutive Runs of the vector
\* in, the groups starting at the indices S: the Run of a group is its first
\* Run with the texts of the group concatenated in order
IsGrouping(in, out, S) ==
    /\ Len(out) = Cardinality(S)
    /\ \A j \in 1..Len(out) :
          out[j] = [in[NthStart(S, j)] EXCEPT
                       !.text = ConcatText(SubSeq(in, NthStart(S, j),
                                                  GroupEnd(S, Len(in), j)))]

\* the sets of group starts of a vector of n Runs
GroupStarts(n) == { S \in SUBSET (1..n) : n > 0 => 1 \in S }

\* C30: mergeAdjacentRuns groups consecutive Runs without reordering: its
\* output holds one Run per group of a partition of the input into
\* consecutive groups, each with every non-text field of the first Run of
\* its group and the group's texts concatenated in order; the output is
\* never longer than the input, and a vector of fewer than two Runs is left
\* as it is.
C30_GroupsInOrder ==
    passes >= 1 =>
        /\ \E S \in GroupStarts(Len(prev)) : IsGrouping(prev, runs, S)
        /\ Len(runs) <= Len(prev)
        /\ Len(prev) < 2 => runs = prev

\* a note reference Run has absorbed the plain Run of equal fingerprint that
\* followed it, ahead of a Run of another style
C30_Witness ==
    /\ passes = 1
    /\ Len(prev) = 3 /\ Len(runs) = 2
    /\ prev[1].noteId # 0 /\ prev[2].noteId = 0
    /\ runs[1].noteId = prev[1].noteId
    /\ prev[1].text # << >> /\ prev[2].text # << >>
    /\ runs[1].text = prev[1].text \o prev[2].text
    /\ runs[2] = prev[3]

====
